---- MODULE Spec2Model ----
(***************************************************************************)
(* ImageFeed (src/main.py): an HTTP service with four handlers             *)
(* (create_feed, get_feed, upload_image, list_images) over two tables      *)
(* (feeds, images) and a directory tree of uploaded files.                 *)
(*                                                                         *)
(* State: the committed rows of both tables, the directories and files of  *)
(* the local disk, the store sessions, and one record per request that     *)
(* holds its inputs, its position in the handler and its response.         *)
(* Requests run concurrently: every step of every handler that touches     *)
(* shared state (a query, a commit, makedirs, open, the write) is one      *)
(* action, and the actions of different requests interleave freely.        *)
(*                                                                         *)
(* Not modelled: the created_at columns (no handler reads them), request   *)
(* validation done by the framework before a handler runs, and failures    *)
(* of read-only queries.  A commit may fail; open() fails as the file      *)
(* system dictates.                                                        *)
(***************************************************************************)
EXTENDS Naturals, Sequences, FiniteSets, TLC

\* Number of requests the service receives in one behaviour, after the one
\* that may have created the feed the store starts with (see Start).
MaxRequests == 2
\* The same, for the specification with fairness.
MaxLiveRequests == 1

\* Values uuid.uuid4 can return, written in their canonical text form (the
\* form str(uuid) and the path f-string produce).
FeedIds == {"f1", "f2"}
ImageIds == {"i1", "i2"}

\* Request inputs.  NULL is the absent description (None).
NULL == "NULL"
Names == {"Vacation"}
Descriptions == {NULL, "sun"}
\* A client-supplied filename, split at "/" as the operating system reads it:
\* "cat.png", "../../cat.png", "sub/cat.png".
Filenames == {<<"cat.png">>, <<"..", "..", "cat.png">>, <<"sub", "cat.png">>}
\* File bodies as sequences of bytes.
Contents == {<<"x", "x">>, <<"y">>}

\* The process's working directory; relative paths start here.  <<>> is "/".
Cwd == <<"app">>

VARIABLES
  feeds,     \* table feeds: id -> [name, description] (committed rows)
  images,    \* table images: id -> [feed_id, filename, path] (committed rows)
  dirs,      \* the directories on disk (absolute paths)
  files,     \* the regular files on disk: absolute path -> content
  sessions,  \* every Session(engine) made so far: [open, closes]
  reqs,      \* the requests received so far, in order of arrival
  quota      \* how many requests this behaviour receives

vars == <<feeds, images, dirs, files, sessions, reqs, quota>>

----------------------------------------------------------------------------
(* The file system *)

Parent(p) == IF p = <<>> THEN <<>> ELSE SubSeq(p, 1, Len(p) - 1)

\* Follow the directory components comps from directory cur; every directory
\* on the way must exist.
RECURSIVE Walk(_, _, _)
Walk(cur, comps, ds) ==
  IF comps = <<>> THEN [ok |-> TRUE, at |-> cur]
  ELSE LET c == Head(comps)
           nxt == IF c = ".." THEN Parent(cur) ELSE Append(cur, c)
       IN IF nxt \in ds THEN Walk(nxt, Tail(comps), ds)
          ELSE [ok |-> FALSE, at |-> nxt]

\* open(path, "wb") of a relative path: where the file is created or
\* truncated, or ok = FALSE when open raises (a missing directory, or the
\* path names a directory).
OpenTarget(path, ds) ==
  LET n == Len(path)
      w == Walk(Cwd, SubSeq(path, 1, n - 1), ds)
      last == path[n]
  IN IF ~w.ok \/ last = ".." \/ Append(w.at, last) \in ds
     THEN [ok |-> FALSE, at |-> w.at]
     ELSE [ok |-> TRUE, at |-> Append(w.at, last)]

\* upload_dir = f"uploads/{feed_id}"
UploadDir(feed_id) == <<"uploads", feed_id>>

\* file_path = f"{upload_dir}/{file.filename}"
FilePath(feed_id, filename) == UploadDir(feed_id) \o filename

\* The bytes of a file after data is written at offset 0 of a handle opened
\* without O_APPEND: bytes beyond the data stay.
PWrite(old, data) == data \o SubSeq(old, Len(data) + 1, Len(old))

----------------------------------------------------------------------------
(* The store *)

\* The lookup with its filter lost: the first feed of the table, whatever id
\* was asked for.
QueryFeedAny(feed_id) ==
  IF feeds = <<>> THEN {} ELSE {CHOOSE id \in DOMAIN feeds : TRUE}

\* db.query(Feed).filter(Feed.id == feed_id).first()
QueryFeed(feed_id) ==
  IF feed_id \in DOMAIN feeds THEN {feed_id} ELSE {}

\* The listing with its filter lost: every image of the table.
QueryImagesNoFilter(feed_id) == DOMAIN images

\* db.query(Image).filter(Image.feed_id == feed_id).all()
QueryImages(feed_id) ==
  {i \in DOMAIN images : images[i].feed_id = feed_id}

\* FeedResponse of a row
FeedResponse(id) ==
  [id |-> id, name |-> feeds[id].name, description |-> feeds[id].description]

\* [{"id": str(img.id), "filename": img.filename} for img in images]
ImageList(ids) ==
  {[id |-> i, filename |-> images[i].filename] : i \in ids}

----------------------------------------------------------------------------
(* Requests *)

NoBody == "none"

Request(kind, feed_id, name, description, filename, content) ==
  [kind |-> kind, feed_id |-> feed_id, name |-> name,
   description |-> description, filename |-> filename, content |-> content,
   pc |-> "handler",
   db |-> Len(sessions) + 1,      \* the session get_db made for it
   after |-> {i \in DOMAIN reqs : reqs[i].pc = "done"},
                                  \* the requests that had ended on arrival
   status |-> 0, body |-> NoBody, \* the response, 0 until there is one
   target |-> <<>>,               \* the file the open handle refers to
   failed |-> "no"]               \* the step that raised, if any

\* get_db up to the yield: db = Session(engine)
GetDbOpen(q) ==
  /\ sessions' = Append(sessions, [open |-> TRUE, closes |-> 0])
  /\ reqs' = Append(reqs, q)

Receive(q) ==
  /\ Len(reqs) < quota
  /\ GetDbOpen(q)
  /\ UNCHANGED <<feeds, images, dirs, files, quota>>

PostFeed ==
  \E name \in Names, description \in Descriptions :
    Receive(Request("create_feed", "none", name, description, <<>>, <<>>))

GetFeed ==
  \E feed_id \in FeedIds :
    Receive(Request("get_feed", feed_id, "none", NULL, <<>>, <<>>))

PostImage ==
  \E feed_id \in FeedIds, filename \in Filenames, content \in Contents :
    Receive(Request("upload_image", feed_id, "none", NULL, filename, content))

GetImages ==
  \E feed_id \in FeedIds :
    Receive(Request("list_images", feed_id, "none", NULL, <<>>, <<>>))

At(r, kind, pc) == reqs[r].kind = kind /\ reqs[r].pc = pc

\* get_db without its try/finally: the session is closed only after a
\* response that is no error.
GetDbCloseOnSuccess(r) ==
  /\ reqs[r].pc = "finally"
  /\ sessions' = IF reqs[r].status = 200
                 THEN [sessions EXCEPT ![reqs[r].db] =
                         [open |-> FALSE, closes |-> @.closes + 1]]
                 ELSE sessions
  /\ reqs' = [reqs EXCEPT ![r].pc = "done"]
  /\ UNCHANGED <<feeds, images, dirs, files, quota>>

\* get_db after the yield: finally: db.close()
GetDbFinally(r) ==
  /\ reqs[r].pc = "finally"
  /\ sessions' = [sessions EXCEPT ![reqs[r].db] =
                    [open |-> FALSE, closes |-> @.closes + 1]]
  /\ reqs' = [reqs EXCEPT ![r].pc = "done"]
  /\ UNCHANGED <<feeds, images, dirs, files, quota>>

\* An exception leaving the handler: the generic server error.
Raise(r, step) ==
  reqs' = [reqs EXCEPT ![r].pc = "finally", ![r].status = 500,
                       ![r].failed = step]

\* raise HTTPException(status_code=404, detail="Feed not found")
NotFound(r) ==
  reqs' = [reqs EXCEPT ![r].pc = "finally", ![r].status = 404]

----------------------------------------------------------------------------
(* create_feed *)

\* db.add(db_feed); db.commit(); db.refresh(db_feed); return db_feed.
\* The id is the column default uuid.uuid4(); the commit raises when the
\* store refuses it (accepted = FALSE) or the primary key is taken.
create_feed(r) ==
  /\ At(r, "create_feed", "handler")
  /\ \E id \in FeedIds, accepted \in BOOLEAN :
       IF accepted /\ id \notin DOMAIN feeds
       THEN /\ feeds' = feeds @@ (id :> [name |-> reqs[r].name,
                                        description |-> reqs[r].description])
            /\ reqs' = [reqs EXCEPT ![r].pc = "finally", ![r].status = 200,
                          ![r].body = [id |-> id, name |-> reqs[r].name,
                                       description |-> reqs[r].description]]
       ELSE /\ Raise(r, "commit")
            /\ UNCHANGED feeds
  /\ UNCHANGED <<images, dirs, files, sessions, quota>>

----------------------------------------------------------------------------
(* get_feed *)

get_feed(r) ==
  /\ At(r, "get_feed", "handler")
  /\ LET feed == QueryFeed(reqs[r].feed_id)
     IN IF feed = {}
        THEN NotFound(r)
        ELSE \E id \in feed :
               reqs' = [reqs EXCEPT ![r].pc = "finally", ![r].status = 200,
                                    ![r].body = FeedResponse(id)]
  /\ UNCHANGED <<feeds, images, dirs, files, sessions, quota>>

----------------------------------------------------------------------------
(* list_images *)

list_images(r) ==
  /\ At(r, "list_images", "handler")
  /\ reqs' = [reqs EXCEPT ![r].pc = "finally", ![r].status = 200,
                ![r].body = ImageList(QueryImages(reqs[r].feed_id))]
  /\ UNCHANGED <<feeds, images, dirs, files, sessions, quota>>

----------------------------------------------------------------------------
(* upload_image *)

\* upload_image with the directory made before the feed is verified.
UploadVerifyLate(r) ==
  /\ At(r, "upload_image", "handler")
  /\ dirs' = dirs \cup {Cwd \o <<"uploads">>,
                         Cwd \o <<"uploads", reqs[r].feed_id>>}
  /\ IF reqs[r].feed_id \in DOMAIN feeds
     THEN reqs' = [reqs EXCEPT ![r].pc = "makedirs"]
     ELSE reqs' = [reqs EXCEPT ![r].pc = "finally", ![r].status = 404]
  /\ UNCHANGED <<feeds, images, files, sessions, quota>>

\* upload_image without the verification of the feed.
UploadNoVerify(r) ==
  /\ At(r, "upload_image", "handler")
  /\ reqs' = [reqs EXCEPT ![r].pc = "makedirs"]
  /\ UNCHANGED <<feeds, images, dirs, files, sessions, quota>>

\* Verify feed exists
UploadVerify(r) ==
  /\ At(r, "upload_image", "handler")
  /\ IF QueryFeed(reqs[r].feed_id) = {}
     THEN NotFound(r)
     ELSE reqs' = [reqs EXCEPT ![r].pc = "makedirs"]
  /\ UNCHANGED <<feeds, images, dirs, files, sessions, quota>>

\* os.makedirs(upload_dir, exist_ok=True): raises when a component of the
\* path exists as a regular file.
UploadMakedirs(r) ==
  /\ At(r, "upload_image", "makedirs")
  /\ LET up == Cwd \o <<"uploads">>
         dir == Cwd \o UploadDir(reqs[r].feed_id)
     IN IF up \in DOMAIN files \/ dir \in DOMAIN files
        THEN Raise(r, "makedirs") /\ UNCHANGED dirs
        ELSE /\ dirs' = dirs \cup {up, dir}
             /\ reqs' = [reqs EXCEPT ![r].pc = "open"]
  /\ UNCHANGED <<feeds, images, files, sessions, quota>>

\* The open with its error swallowed: the handler goes on to the commit.
UploadOpenIgnoreError(r) ==
  /\ At(r, "upload_image", "open")
  /\ LET t == OpenTarget(FilePath(reqs[r].feed_id, reqs[r].filename), dirs)
     IN IF t.ok
        THEN /\ files' = [p \in DOMAIN files \cup {t.at} |->
                            IF p = t.at THEN <<>> ELSE files[p]]
             /\ reqs' = [reqs EXCEPT ![r].pc = "write", ![r].target = t.at]
        ELSE /\ reqs' = [reqs EXCEPT ![r].pc = "commit"]
             /\ UNCHANGED files
  /\ UNCHANGED <<feeds, images, dirs, sessions, quota>>

\* The open in mode "r+b"/"ab" instead of "wb": an existing file keeps its
\* bytes.
UploadOpenNoTruncate(r) ==
  /\ At(r, "upload_image", "open")
  /\ LET t == OpenTarget(FilePath(reqs[r].feed_id, reqs[r].filename), dirs)
     IN IF t.ok
        THEN /\ files' = [p \in DOMAIN files \cup {t.at} |->
                            IF p \in DOMAIN files THEN files[p] ELSE <<>>]
             /\ reqs' = [reqs EXCEPT ![r].pc = "write", ![r].target = t.at]
        ELSE /\ reqs' = [reqs EXCEPT ![r].pc = "finally", ![r].status = 500,
                                     ![r].failed = "open"]
             /\ UNCHANGED files
  /\ UNCHANGED <<feeds, images, dirs, sessions, quota>>

\* with open(file_path, "wb") as buffer: creates or truncates the file, or
\* raises.
UploadOpen(r) ==
  /\ At(r, "upload_image", "open")
  /\ LET t == OpenTarget(FilePath(reqs[r].feed_id, reqs[r].filename), dirs)
     IN IF t.ok
        THEN /\ files' = [p \in DOMAIN files \cup {t.at} |->
                            IF p = t.at THEN <<>> ELSE files[p]]
             /\ reqs' = [reqs EXCEPT ![r].pc = "write", ![r].target = t.at]
        ELSE Raise(r, "open") /\ UNCHANGED files
  /\ UNCHANGED <<feeds, images, dirs, sessions, quota>>

\* content = await file.read(); buffer.write(content); leaving the with
\* block.  The handler is suspended while the body is read, so requests run
\* between open and this step.  Reading the body and closing the handle
\* change nothing another request sees; the bytes reach the file once, at
\* offset 0 of this handle, at write() or at the flush of the close.
UploadWrite(r) ==
  /\ At(r, "upload_image", "write")
  /\ files' = [files EXCEPT ![reqs[r].target] = PWrite(@, reqs[r].content)]
  /\ reqs' = [reqs EXCEPT ![r].pc = "commit"]
  /\ UNCHANGED <<feeds, images, dirs, sessions, quota>>

\* The commit with a compensating action: the file is removed when the
\* commit raises.
UploadCommitCleanup(r) ==
  /\ At(r, "upload_image", "commit")
  /\ \E id \in ImageIds, accepted \in BOOLEAN :
       IF accepted /\ id \notin DOMAIN images
       THEN /\ images' = images @@
                 (id :> [feed_id |-> reqs[r].feed_id,
                         filename |-> reqs[r].filename,
                         path |-> FilePath(reqs[r].feed_id, reqs[r].filename)])
            /\ reqs' = [reqs EXCEPT ![r].pc = "finally", ![r].status = 200,
                                    ![r].body = id]
            /\ UNCHANGED files
       ELSE /\ reqs' = [reqs EXCEPT ![r].pc = "finally", ![r].status = 500,
                                    ![r].failed = "commit"]
            /\ files' = [p \in DOMAIN files \ {reqs[r].target} |-> files[p]]
            /\ UNCHANGED images
  /\ UNCHANGED <<feeds, dirs, sessions, quota>>

\* db_image = Image(...); db.add(db_image); db.commit(); return JSONResponse.
\* The id is the column default uuid.uuid4(); the commit raises when the
\* store refuses it or the primary key is taken.
UploadCommit(r) ==
  /\ At(r, "upload_image", "commit")
  /\ \E id \in ImageIds, accepted \in BOOLEAN :
       IF accepted /\ id \notin DOMAIN images
       THEN /\ images' = images @@
                 (id :> [feed_id |-> reqs[r].feed_id,
                         filename |-> reqs[r].filename,
                         path |-> FilePath(reqs[r].feed_id, reqs[r].filename)])
            /\ reqs' = [reqs EXCEPT ![r].pc = "finally", ![r].status = 200,
                                    ![r].body = id]
       ELSE /\ Raise(r, "commit")
            /\ UNCHANGED images
  /\ UNCHANGED <<feeds, dirs, files, sessions, quota>>

----------------------------------------------------------------------------
(* Specifications *)

\* A fresh deployment: empty tables, no uploads directory.
EmptyStore ==
  /\ feeds = <<>>
  /\ images = <<>>
  /\ dirs = {<<>>, Cwd}
  /\ files = <<>>
  /\ sessions = <<>>
  /\ reqs = <<>>

\* The state one create_feed request leaves, run alone on a fresh deployment
\* (PostFeed, create_feed, GetDbFinally): the feeds table holds its row, its
\* session is closed and its response is part of the history.
OneFeed ==
  /\ feeds = ("f1" :> [name |-> "Vacation", description |-> NULL])
  /\ images = <<>>
  /\ dirs = {<<>>, Cwd}
  /\ files = <<>>
  /\ sessions = <<[open |-> FALSE, closes |-> 1]>>
  /\ reqs = <<[kind |-> "create_feed", feed_id |-> "none",
               name |-> "Vacation", description |-> NULL,
               filename |-> <<>>, content |-> <<>>, pc |-> "done", db |-> 1,
               after |-> {}, status |-> 200,
               body |-> [id |-> "f1", name |-> "Vacation",
                         description |-> NULL],
               target |-> <<>>, failed |-> "no"]>>

\* The service starts on a store that is empty or holds one feed, and then
\* receives n requests.
Start(n) ==
  \/ EmptyStore /\ quota = n
  \/ OneFeed /\ quota = n + 1

Init == Start(MaxRequests)

LiveInit == Start(MaxLiveRequests)

Next ==
  \/ PostFeed
  \/ GetFeed
  \/ PostImage
  \/ GetImages
  \/ \E r \in DOMAIN reqs : create_feed(r)
  \/ \E r \in DOMAIN reqs : get_feed(r)
  \/ \E r \in DOMAIN reqs : list_images(r)
  \/ \E r \in DOMAIN reqs : UploadVerify(r)
  \/ \E r \in DOMAIN reqs : UploadMakedirs(r)
  \/ \E r \in DOMAIN reqs : UploadOpen(r)
  \/ \E r \in DOMAIN reqs : UploadWrite(r)
  \/ \E r \in DOMAIN reqs : UploadCommit(r)
  \/ \E r \in DOMAIN reqs : GetDbFinally(r)

Spec == Init /\ [][Next]_vars

\* A step of the handler of request r, or of its dependency's clean-up.
Step(r) ==
  \/ create_feed(r)
  \/ get_feed(r)
  \/ list_images(r)
  \/ UploadVerify(r)
  \/ UploadMakedirs(r)
  \/ UploadOpen(r)
  \/ UploadWrite(r)
  \/ UploadCommit(r)
  \/ GetDbFinally(r)

\* Every request that was received runs to its end: the server abandons no
\* handler and no clean-up.
LiveSpec ==
  /\ LiveInit
  /\ [][Next]_vars
  /\ \A r \in 1..(MaxLiveRequests + 1) : WF_vars(r \in DOMAIN reqs /\ Step(r))

----------------------------------------------------------------------------
(* Properties *)

IsUpload(r) == reqs[r].kind = "upload_image"

\* The upload has opened its file.  (<<>> is "/", never a file.)
Opened(r) == IsUpload(r) /\ reqs[r].target # <<>>

\* The upload has written its content and closed its handle.
Wrote(r) == Opened(r) /\ reqs[r].pc \in {"commit", "finally", "done"}

\* The upload has ended with its success response.
Uploaded(r) == IsUpload(r) /\ reqs[r].pc = "done" /\ reqs[r].status = 200

\* C1: an upload_image to a feed identifier that resolves to no Feed answers
\* 404, and no step of that request changes the directories, the files or
\* the tables.
C1_UploadNotFound ==
  [][\A r \in DOMAIN reqs :
       ( /\ IsUpload(r)
         /\ reqs'[r] # reqs[r]
         /\ \/ reqs[r].status = 404
            \/ reqs[r].pc = "handler" /\ reqs[r].feed_id \notin DOMAIN feeds )
       => /\ reqs'[r].status = 404
          /\ dirs' = dirs /\ files' = files
          /\ images' = images /\ feeds' = feeds]_vars

C1_Witness ==
  \E r \in DOMAIN reqs :
    /\ IsUpload(r) /\ reqs[r].pc = "done" /\ reqs[r].status = 404
    /\ reqs[r].feed_id \notin DOMAIN feeds

\* C2: after two concurrent uploads to the same feed with the same filename
\* (and no other upload to that file), the file holds the complete content of
\* one of the two, never a mix of both.
C2_LastWriterWins ==
  \A i, j \in DOMAIN reqs :
    ( /\ i < j /\ Wrote(i) /\ Wrote(j)
      /\ reqs[i].feed_id = reqs[j].feed_id
      /\ reqs[i].filename = reqs[j].filename
      /\ i \notin reqs[j].after
      /\ \A k \in DOMAIN reqs \ {i, j} :
            ~(Opened(k) /\ reqs[k].target = reqs[j].target) )
    => files[reqs[j].target] \in {reqs[i].content, reqs[j].content}

\* C3: after two uploads with the same filename to the same feed, the second
\* received after the first had ended (and every other upload to that file
\* ended before the second was received), the file holds the second upload's
\* content, and the listing of the feed holds both uploads, under two
\* distinct identifiers and the same filename, one entry per successful
\* upload to the feed.
C3_SequentialOverwrite ==
  \A i, j \in DOMAIN reqs :
    ( /\ Uploaded(i) /\ Uploaded(j)
      /\ i \in reqs[j].after
      /\ reqs[i].feed_id = reqs[j].feed_id
      /\ reqs[i].filename = reqs[j].filename
      /\ \A k \in DOMAIN reqs \ {j} :
            (Opened(k) /\ reqs[k].target = reqs[j].target)
               => k \in reqs[j].after )
    => LET listing == ImageList(QueryImages(reqs[j].feed_id))
       IN /\ files[reqs[j].target] = reqs[j].content
          /\ reqs[i].body # reqs[j].body
          /\ [id |-> reqs[i].body, filename |-> reqs[i].filename] \in listing
          /\ [id |-> reqs[j].body, filename |-> reqs[j].filename] \in listing
          /\ Cardinality(listing) =
               Cardinality({k \in DOMAIN reqs :
                              /\ IsUpload(k) /\ reqs[k].status = 200
                              /\ reqs[k].feed_id = reqs[j].feed_id})

C3_Witness ==
  \E i, j \in DOMAIN reqs :
    /\ Uploaded(i) /\ Uploaded(j)
    /\ i \in reqs[j].after
    /\ reqs[i].feed_id = reqs[j].feed_id
    /\ reqs[i].filename = reqs[j].filename
    /\ reqs[i].content # reqs[j].content
    /\ files[reqs[j].target] = reqs[j].content
    /\ Cardinality(ImageList(QueryImages(reqs[j].feed_id))) = 2

\* C4: when the commit of an upload raises after the file was written, the
\* request answers 500, the step adds no Image record and leaves the file
\* system as it is, and from then on the file stays on disk and no step of
\* the request changes the files or the images table.
C4_OrphanedFile ==
  [][\A r \in DOMAIN reqs :
       /\ ( At(r, "upload_image", "commit") /\ reqs'[r].status # 200
             /\ reqs'[r] # reqs[r] )
          => /\ reqs'[r].status = 500 /\ reqs'[r].pc = "finally"
             /\ images' = images /\ files' = files /\ dirs' = dirs
             /\ reqs[r].target \in DOMAIN files
       /\ ( IsUpload(r) /\ reqs[r].failed = "commit" )
          => /\ reqs[r].target \in DOMAIN files'
             /\ reqs'[r] # reqs[r] => images' = images /\ files' = files]_vars

C4_Witness ==
  \E r \in DOMAIN reqs :
    /\ IsUpload(r) /\ reqs[r].pc = "done" /\ reqs[r].status = 500
    /\ reqs[r].failed = "commit"
    /\ reqs[r].target \in DOMAIN files
    /\ files[reqs[r].target] = reqs[r].content
    /\ images = <<>>

\* C5: the file an upload to feed F opens lies inside F's own directory,
\* uploads/F/, whatever the filename.
C5_InsideFeedDirectory ==
  \A r \in DOMAIN reqs :
    Opened(r) =>
      LET dir == Cwd \o UploadDir(reqs[r].feed_id)
      IN /\ Len(reqs[r].target) > Len(dir)
         /\ SubSeq(reqs[r].target, 1, Len(dir)) = dir

\* C6: the response of list_images(F) is exactly one entry {id, filename}
\* per Image record whose feed reference is F.
C6_ListStep ==
  \A r \in DOMAIN reqs :
    ( At(r, "list_images", "handler") /\ reqs'[r] # reqs[r] )
    => /\ reqs'[r].status = 200
       /\ reqs'[r].body =
            {[id |-> i, filename |-> images[i].filename] :
               i \in {k \in DOMAIN images :
                        images[k].feed_id = reqs[r].feed_id}}

\* C6, the single upload: a listing of F received after the only successful
\* upload to F had ended has exactly one entry, with that upload's filename
\* and the identifier the upload returned.
C6_SingleUpload ==
  \A u, l \in DOMAIN reqs :
    ( /\ Uploaded(u)
      /\ reqs[l].kind = "list_images" /\ reqs[l].status # 0
      /\ u \in reqs[l].after
      /\ reqs[l].feed_id = reqs[u].feed_id
      /\ \A k \in DOMAIN reqs \ {u} :
            ~(IsUpload(k) /\ reqs[k].status = 200
              /\ reqs[k].feed_id = reqs[u].feed_id) )
    => /\ reqs[l].status = 200
       /\ reqs[l].body =
            {[id |-> reqs[u].body, filename |-> reqs[u].filename]}

C6_Listing == [][C6_ListStep]_vars /\ []C6_SingleUpload

C6_Witness ==
  \E u, l \in DOMAIN reqs :
    /\ Uploaded(u)
    /\ reqs[l].kind = "list_images" /\ reqs[l].pc = "done"
    /\ u \in reqs[l].after
    /\ reqs[l].feed_id = reqs[u].feed_id
    /\ reqs[u].filename = <<"cat.png">>
    /\ reqs[l].body = {[id |-> reqs[u].body, filename |-> <<"cat.png">>]}

IsCreated(c) == reqs[c].kind = "create_feed" /\ reqs[c].status = 200

\* C7: a get_feed received after create_feed returned its id answers 200
\* with that id and the name and description given to create_feed; a
\* get_feed for an id that no create_feed returned answers 404.
C7_GetFeed ==
  \A g \in DOMAIN reqs :
    ( reqs[g].kind = "get_feed" /\ reqs[g].status # 0 )
    => /\ \A c \in reqs[g].after :
            ( IsCreated(c) /\ reqs[c].body.id = reqs[g].feed_id )
            => /\ reqs[g].status = 200
               /\ reqs[g].body = [id |-> reqs[g].feed_id,
                                  name |-> reqs[c].name,
                                  description |-> reqs[c].description]
       /\ ( \A c \in DOMAIN reqs :
              ~(IsCreated(c) /\ reqs[c].body.id = reqs[g].feed_id) )
          => reqs[g].status = 404

C7_Witness ==
  \E g, c \in DOMAIN reqs :
    /\ reqs[g].kind = "get_feed" /\ reqs[g].pc = "done"
    /\ c \in reqs[g].after /\ IsCreated(c)
    /\ reqs[c].body.id = reqs[g].feed_id
    /\ reqs[g].status = 200
    /\ reqs[g].body.description = NULL
    /\ Cardinality(DOMAIN feeds) = 2

\* C8: list_images for a feed identifier that resolves to no Feed answers
\* 200 with the empty list, and no step of the request changes the tables
\* or the file system.
C8_ListUnknownFeed ==
  [][\A r \in DOMAIN reqs :
       ( /\ reqs[r].kind = "list_images"
         /\ reqs'[r] # reqs[r]
         /\ reqs[r].feed_id \notin DOMAIN feeds )
       => /\ reqs'[r].status = 200
          /\ reqs'[r].body = {}
          /\ feeds' = feeds /\ images' = images
          /\ dirs' = dirs /\ files' = files]_vars

C8_Witness ==
  \E r \in DOMAIN reqs :
    /\ reqs[r].kind = "list_images" /\ reqs[r].pc = "done"
    /\ reqs[r].feed_id \notin DOMAIN feeds
    /\ reqs[r].status = 200 /\ reqs[r].body = {}
    /\ images # <<>>

\* Every request has a session of its own, open while the request runs and
\* closed once, and no more, when it has ended.
C9_Sessions ==
  /\ Len(sessions) = Len(reqs)
  /\ \A r \in DOMAIN reqs : reqs[r].db \in DOMAIN sessions
  /\ \A r, q \in DOMAIN reqs : r # q => reqs[r].db # reqs[q].db
  /\ \A r \in DOMAIN reqs :
       IF reqs[r].pc = "done"
       THEN sessions[reqs[r].db] = [open |-> FALSE, closes |-> 1]
       ELSE sessions[reqs[r].db] = [open |-> TRUE, closes |-> 0]

\* C9: every request obtains its own session, shared with no other request,
\* and that session is eventually closed, exactly once, on every path of the
\* handler (a response, the 404, a failure of the open or of the commit).
C9_SessionClosed ==
  /\ []C9_Sessions
  /\ \A r \in 1..(MaxLiveRequests + 1) :
       (r \in DOMAIN reqs) ~>
         ( /\ r \in DOMAIN reqs /\ reqs[r].pc = "done"
           /\ sessions[reqs[r].db] = [open |-> FALSE, closes |-> 1] )

C9_Witness ==
  \E r, q \in DOMAIN reqs :
    /\ IsUpload(r) /\ reqs[r].pc = "done" /\ reqs[r].status = 500
    /\ reqs[r].failed = "open"
    /\ sessions[reqs[r].db] = [open |-> FALSE, closes |-> 1]
    /\ q # r /\ reqs[q].db # reqs[r].db
    /\ sessions[reqs[q].db] = [open |-> FALSE, closes |-> 1]

\* C10: every Image record references a Feed that exists, and a file is on
\* disk at the path the record stores.
C10_RecordHasFeedAndFile ==
  \A i \in DOMAIN images :
    /\ images[i].feed_id \in DOMAIN feeds
    /\ LET t == OpenTarget(images[i].path, dirs)
       IN t.ok /\ t.at \in DOMAIN files

C10_Witness ==
  \E i \in DOMAIN images, r \in DOMAIN reqs :
    /\ Opened(r) /\ reqs[r].pc = "write"
    /\ reqs[r].target = OpenTarget(images[i].path, dirs).at
    /\ files[reqs[r].target] = <<>>

====
